---- MODULE Spec2Model ----
(***************************************************************************)
(* Model of the scene video assembly pipeline of reel_maker                *)
(* (src/src/services/ffmpegService.js): the lazily initialised engine      *)
(* handle (loadFFmpeg) and one assembly run (assembleVideo) against an     *)
(* engine whose file writes, commands and progress events are chosen by    *)
(* the environment.                                                        *)
(*                                                                         *)
(* Encodings.  Times are in tenths of a second, so GAP_SEC = 0.1 is 1.     *)
(* An engine progress value p stands for p / PDen.  An overall fraction    *)
(* is kept as its numerator over Den = PDen * totalSteps, so fraction 0    *)
(* is 0 and fraction 1 is Den.  A null blob is NoBlob; a null currentScene *)
(* is NullScene.  File names are tuples <<prefix, index, suffix>>.         *)
(***************************************************************************)
EXTENDS Integers, Sequences, FiniteSets, TLC

VARIABLES
    ffmpeg,          \* module variable ffmpeg: 0 is null, k > 0 the k-th instance
    loaded,          \* module variable loaded
    nInstances,      \* number of `new FFmpeg()` evaluated so far
    initialized,     \* instances whose load() has completed
    lpc,             \* per loadFFmpeg caller: position in loadFFmpeg
    mine,            \* per caller: the instance whose load() it awaits
    ret,             \* per caller: the instance its call resolved with
    scenes,          \* argument scenes
    includeSubtitles,\* options.includeSubtitles
    pc,              \* position of the run in assembleVideo
    i,               \* loop index of the loop the run is in
    fontUrl,         \* index into urls in loadFontForSubtitles
    attempt,         \* 1: the exec in the try block, 2: the exec in the catch block
    audioExts,       \* local audioExts
    audioDurations,  \* local audioDurations
    sceneVideos,     \* local sceneVideos
    currentStep,     \* closure variable currentStep
    listeners,       \* progress listeners subscribed on the engine
    concatList,      \* content written to concat.txt
    error,           \* the rejection value of the run
    blob,            \* the value the run resolved with
    evCount,         \* progress events the engine has emitted for the running command
    lastP,           \* the engine's last progress value for the running command
    written,         \* names passed to f.writeFile in this run, in order
    execLog,         \* commands passed to f.exec in this run, in order, with their result
    calls,           \* onProgress calls made by the latest step
    prevFraction,    \* fraction of the latest onProgress call before the latest step
    lastFraction,    \* fraction of the latest onProgress call
    firstFraction,   \* fraction of the first onProgress call
    nZero,           \* number of onProgress calls with fraction 0
    nOne,            \* number of onProgress calls with fraction 1
    lastStatus,      \* per run: the status of the latest onProgress call that had one
    assembleProgress,\* App state assembleProgress
    assembleStatus,  \* App state assembleStatus
    outputBlob,      \* App state outputBlob
    uiError,         \* App state error
    handler,         \* "awaiting" while handleAssemble awaits assembleVideo, else "none"
    appScenes,       \* App state scenes, each scene with the script it belongs to
    scriptNo,        \* number of scripts generateScenes has returned
    loading,         \* App state loading
    generatingIndex, \* App state generatingIndex
    requests,        \* generateImage / generateTTS requests in flight
    chat,            \* argument chat of sendAssistantMessage: FALSE is null
    response,        \* what chat.sendMessage resolved with
    reply,           \* what sendAssistantMessage returned
    scriptCalls,     \* arguments of the onScript calls made, in order
    fetchLog,        \* urls fetched by loadFontForSubtitles in this run, with the outcome
    runId,           \* number of the assembleVideo call in progress (1 is the first)
    stale,           \* closures of the progress listeners of earlier runs
    narration,       \* argument of cleanNarrationForSubtitles / sceneToSRT
    startSec,        \* argument startSec of sceneToSRT
    endSec,          \* argument endSec of sceneToSRT
    cueText,         \* result of cleanNarrationForSubtitles
    srtDoc,          \* result of sceneToSRT
    fnpc             \* "input" before the function is applied, "done" after

loadVars == <<ffmpeg, loaded, nInstances, initialized, lpc, mine, ret>>
inputVars == <<scenes, includeSubtitles>>
localVars == <<i, fontUrl, attempt, audioExts, audioDurations, sceneVideos,
               currentStep, listeners, concatList>>
outcomeVars == <<error, blob>>
engineVars == <<evCount, lastP>>
logVars == <<written, execLog>>
progressVars == <<calls, prevFraction, lastFraction, firstFraction, nZero, nOne,
                  lastStatus, assembleProgress, assembleStatus>>
runVars == <<inputVars, pc, localVars, outcomeVars, engineVars, logVars, progressVars>>
runsVars == <<runId, stale>>
fnVars == <<narration, startSec, endSec, cueText, srtDoc, fnpc>>
\* What the steps of a run leave alone, but for the font fetch's own log.
uiVars == <<outputBlob, uiError, handler>>
editVars == <<appScenes, scriptNo, loading, generatingIndex, requests>>
chatVars == <<chat, response, reply, scriptCalls>>
appVars == <<editVars, chatVars>>
frameVars == <<fetchLog, runsVars, fnVars, uiVars, appVars>>
vars == <<loadVars, runVars, frameVars>>

(***************************************************************************)
(* Bounds                                                                  *)
(***************************************************************************)
MaxScenes == 2
MaxEvents == 2
MaxCallers == 2
MaxInstances == 4
PMax == 3
MaxNarration == 5
MaxSeconds == 12
MaxRuns == 2
MaxRunScenes == 1
MaxScripts == 2
MaxScriptScenes == 2
MaxRequests == 2
MaxFunctionCalls == 2
MaxElements == 2

(***************************************************************************)
(* Program constants and encodings                                         *)
(***************************************************************************)
PDen == 2
GAP_SEC == 1
NullScene == 0
NoFraction == 0 - 1
NoBlob == [type |-> "none", duration |-> 0]
ImageBlob == [type |-> "image/png", duration |-> 0]
NoError == [kind |-> "none", scene |-> 0]

Min(a, b) == IF a <= b THEN a ELSE b

\* The scenes a request is built from: a complete mp3 scene, a complete wav
\* scene, a scene without image and a scene without audio.  sceneNumber is
\* independent of the position in the list.
SceneKinds ==
    { [sceneNumber |-> 1, imageBlob |-> ImageBlob,
       audioBlob |-> [type |-> "audio/mpeg", duration |-> 10]],
      [sceneNumber |-> 5, imageBlob |-> ImageBlob,
       audioBlob |-> [type |-> "audio/wav", duration |-> 25]],
      [sceneNumber |-> 2, imageBlob |-> NoBlob,
       audioBlob |-> [type |-> "audio/wav", duration |-> 10]],
      [sceneNumber |-> 1, imageBlob |-> ImageBlob, audioBlob |-> NoBlob] }

SceneLists == UNION { [1..n -> SceneKinds] : n \in 0..MaxScenes }

Callers == 1..MaxCallers
Run == 1

(***************************************************************************)
(* Pure helpers of assembleVideo                                           *)
(***************************************************************************)
MissingMediaBoth(s) == s.imageBlob = NoBlob /\ s.audioBlob = NoBlob

\* !s.imageBlob || !s.audioBlob
MissingMedia(s) == s.imageBlob = NoBlob \/ s.audioBlob = NoBlob

MissingErrorBySceneNumber(idx, s) == [kind |-> "missing", scene |-> s.sceneNumber]

\* new Error(`Scene ${i + 1} missing image or audio`), idx the 0-based index
MissingError(idx, s) == [kind |-> "missing", scene |-> idx + 1]

Failure(what) == [kind |-> what, scene |-> 0]

\* (s.audioBlob?.type || '').includes('mpeg') ? 'mp3' : 'wav'
AudioExt(s) == IF s.audioBlob.type = "audio/mpeg" THEN "mp3" ELSE "wav"

FontFile == <<"fonts", 0, "DejaVuSans.ttf">>
FONT_URL == "https://cdn.jsdelivr.net/npm/dejavu-fonts-ttf/ttf/DejaVuSans.ttf"
\* const urls = ['/fonts/DejaVuSans.ttf', FONT_URL]
Urls == <<"/fonts/DejaVuSans.ttf", FONT_URL>>
\* One pass of the url loop: the url fetched and whether the font was written.
Fetched(u, outcome) == [url |-> Urls[u], outcome |-> outcome]
ImageFile(idx) == <<"scene", idx, "img.png">>
AudioFile(idx, ext) == <<"scene", idx, "audio." \o ext>>
SrtFile(idx) == <<"scene", idx, "srt">>
VideoFile(idx) == <<"scene", idx, "vid.mp4">>
ConcatFile == <<"concat", 0, "txt">>
OutputFile == <<"output", 0, "mp4">>

totalSteps == Len(scenes) + 1
Den == PDen * totalSteps

OverallUnclamped(step, p) == step * PDen + p

\* Math.min(1, (currentStep + Math.min(1, progress)) / totalSteps)
Overall(step, p) == Min(Den, step * PDen + Min(PDen, p))

\* i / totalSteps
StepFraction(idx) == idx * PDen

CurrentSceneFromEnd(step) == IF step < Len(scenes) THEN Len(scenes) - step ELSE NullScene

\* currentStep < scenes.length ? currentStep + 1 : null
CurrentScene(step) == IF step < Len(scenes) THEN step + 1 ELSE NullScene

NoFile == <<"", 0, "">>
NoDoc == [index |-> <<>>, start |-> <<>>, end |-> <<>>, text |-> <<>>]
ScaleFilter == [name |-> "scale=720:1280", file |-> NoFile]
PadFilter == [name |-> "pad=720:1280", file |-> NoFile]
\* `subtitles=${srtPath}:fontsdir=/fonts:force_style=...`
SubFilter(idx) == [name |-> "subtitles", file |-> SrtFile(idx)]

FirstVfAlwaysSubs(idx) == <<ScaleFilter, SubFilter(idx), PadFilter>>

\* const vf = includeSubtitles ? scale,sub,pad : scale,pad
FirstVf(idx) ==
    IF includeSubtitles THEN <<ScaleFilter, SubFilter(idx), PadFilter>>
    ELSE <<ScaleFilter, PadFilter>>

RetryVfSame(idx) == FirstVf(idx)

\* '-vf', `${scaleFilter},${padFilter}` of the exec in the catch block
RetryVf(idx) == <<ScaleFilter, PadFilter>>

EncodeCmdFirstDuration(idx, vf) ==
    [kind |-> "encode", scene |-> idx,
     t |-> audioDurations[1] + GAP_SEC,
     image |-> ImageFile(idx),
     audio |-> AudioFile(idx, audioExts[idx + 1]),
     vf |-> vf, codec |-> <<"libx264", "aac">>, apad |-> GAP_SEC,
     out |-> VideoFile(idx), result |-> "running"]

\* The argument list of a scene encode, with the result the engine gave it.
EncodeCmd(idx, vf) ==
    [kind |-> "encode", scene |-> idx,
     t |-> audioDurations[idx + 1] + GAP_SEC,
     image |-> ImageFile(idx),
     audio |-> AudioFile(idx, audioExts[idx + 1]),
     vf |-> vf, codec |-> <<"libx264", "aac">>, apad |-> GAP_SEC,
     out |-> VideoFile(idx), result |-> "running"]

ConcatCmd ==
    [kind |-> "concat", list |-> ConcatFile, out |-> OutputFile, result |-> "running"]

PushFront(list, out) == <<out>> \o list

\* sceneVideos.push(out)
Push(list, out) == Append(list, out)

\* sceneVideos.map((name) => `file '${name}'`).join('\n')
Manifest(list) == [k \in DOMAIN list |-> <<"file", list[k]>>]

CatchesTwice(att) == att <= 2

\* The try block of the scene encode catches the first exec; the exec in the
\* catch block is not guarded.
Catches(att) == att = 1

SetResult(log, r) == [log EXCEPT ![Len(log)].result = r]

(***************************************************************************)
(* onProgress bookkeeping                                                  *)
(***************************************************************************)
ProgressCall(frac, scene, total) ==
    [run |-> runId, fraction |-> frac, den |-> Den, hasStatus |-> TRUE,
     currentScene |-> scene, totalScenes |-> total]

\* The call a listener of an earlier run makes: its closure holds that run's
\* onProgress, scenes and totalSteps and the last value of its currentStep.
StaleCall(cl, p) ==
    [run |-> cl.run,
     fraction |-> Min(PDen * (cl.nScenes + 1), cl.currentStep * PDen + Min(PDen, p)),
     den |-> PDen * (cl.nScenes + 1), hasStatus |-> TRUE,
     currentScene |-> IF cl.currentStep < cl.nScenes THEN cl.currentStep + 1 ELSE NullScene,
     totalScenes |-> cl.nScenes]

\* The closure of the listener that run r subscribed.
ClosureOf(r) == CHOOSE cl \in {stale[k] : k \in DOMAIN stale} : cl.run = r

\* onProgress?.(0)
BareCall(frac) ==
    [run |-> runId, fraction |-> frac, den |-> Den, hasStatus |-> FALSE,
     currentScene |-> NullScene, totalScenes |-> 0]

\* The calls among cs made to this run's onProgress with fraction v.
Count(cs, v) == Cardinality({k \in DOMAIN cs : cs[k].run = runId /\ cs[k].fraction = v})

\* No call with a status has been made yet.
NoStatus == [seen |-> FALSE, currentScene |-> NullScene, totalScenes |-> 0]

\* The status argument of the call c.
StatusOf(c) == [seen |-> TRUE, currentScene |-> c.currentScene, totalScenes |-> c.totalScenes]

\* The status the onProgress of run r saw last, after the calls cs.
LatestStatus(cs, r) ==
    LET ks == {k \in DOMAIN cs : cs[k].run = r /\ cs[k].hasStatus}
    IN IF ks = {} THEN lastStatus[r]
       ELSE StatusOf(cs[CHOOSE k \in ks : \A m \in ks : m <= k])

\* A value of assembleProgress: null, or the number num / den.
NullProgress == [isNull |-> TRUE, num |-> 0, den |-> 1]
Fraction(n, d) ==
    IF n = 0 THEN [isNull |-> FALSE, num |-> 0, den |-> 1]
    ELSE IF n = d THEN [isNull |-> FALSE, num |-> 1, den |-> 1]
    ELSE [isNull |-> FALSE, num |-> n, den |-> d]

\* The callback handleAssemble passes: (p, status) => { setAssembleProgress(p);
\* if (status) setAssembleStatus(status); }.  Every run's callback sets the
\* same state.
ProgressAfter(cs) ==
    IF cs = <<>> THEN assembleProgress
    ELSE Fraction(cs[Len(cs)].fraction, cs[Len(cs)].den)

StatusAfter(cs) ==
    LET ks == {k \in DOMAIN cs : cs[k].hasStatus}
        c == cs[CHOOSE k \in ks : \A m \in ks : m <= k]
    IN IF ks = {} THEN assembleStatus
       ELSE [currentScene |-> c.currentScene, totalScenes |-> c.totalScenes]

\* The step calls onProgress with each element of cs, in order.
Emit(cs) ==
    /\ calls' = cs
    /\ prevFraction' = lastFraction
    /\ lastFraction' = IF cs = <<>> THEN lastFraction ELSE cs[Len(cs)].fraction
    /\ firstFraction' = IF firstFraction = NoFraction /\ cs # <<>>
                        THEN cs[1].fraction ELSE firstFraction
    /\ nZero' = nZero + Count(cs, 0)
    /\ nOne' = nOne + Count(cs, Den)
    /\ lastStatus' = [r \in DOMAIN lastStatus |-> LatestStatus(cs, r)]
    /\ assembleProgress' = ProgressAfter(cs)
    /\ assembleStatus' = StatusAfter(cs)

Silent == Emit(<<>>)

(***************************************************************************)
(* loadFFmpeg                                                              *)
(***************************************************************************)
\* A call of loadFFmpeg up to its first await: the cached instance is
\* returned, or a new one is constructed and stored and its load awaited.
LoadEnter(c) ==
    /\ lpc[c] \in {"idle", "returned", "rejected"}
    /\ \/ /\ loaded /\ ffmpeg # 0
          /\ lpc' = [lpc EXCEPT ![c] = "returned"]
          /\ ret' = [ret EXCEPT ![c] = ffmpeg]
          /\ UNCHANGED <<ffmpeg, loaded, nInstances, initialized, mine>>
       \/ /\ ~(loaded /\ ffmpeg # 0)
          /\ nInstances < MaxInstances
          /\ nInstances' = nInstances + 1
          /\ ffmpeg' = nInstances + 1
          /\ mine' = [mine EXCEPT ![c] = nInstances + 1]
          /\ lpc' = [lpc EXCEPT ![c] = "awaiting"]
          /\ ret' = [ret EXCEPT ![c] = 0]
          /\ UNCHANGED <<loaded, initialized>>

\* await ffmpeg.load(...) completes: loaded = true; return ffmpeg
LoadResolve(c) ==
    /\ lpc[c] = "awaiting"
    /\ initialized' = initialized \cup {mine[c]}
    /\ loaded' = TRUE
    /\ lpc' = [lpc EXCEPT ![c] = "returned"]
    /\ ret' = [ret EXCEPT ![c] = ffmpeg]
    /\ UNCHANGED <<ffmpeg, nInstances, mine>>

\* toBlobURL or ffmpeg.load rejects: the call rejects, the globals stay
LoadReject(c) ==
    /\ lpc[c] = "awaiting"
    /\ lpc' = [lpc EXCEPT ![c] = "rejected"]
    /\ UNCHANGED <<ffmpeg, loaded, nInstances, initialized, mine, ret>>

LoadInit ==
    /\ ffmpeg = 0
    /\ loaded = FALSE
    /\ nInstances = 0
    /\ initialized = {}
    /\ lpc = [c \in Callers |-> "idle"]
    /\ mine = [c \in Callers |-> 0]
    /\ ret = [c \in Callers |-> 0]

(***************************************************************************)
(* assembleVideo                                                           *)
(***************************************************************************)
Reject(e) ==
    /\ pc' = "rejected"
    /\ error' = e
    /\ UNCHANGED blob

\* onProgress?.(0); const f = await loadFFmpeg()
Call ==
    /\ pc = "idle"
    /\ pc' = "load"
    /\ Emit(<<BareCall(0)>>)
    /\ UNCHANGED frameVars
    /\ UNCHANGED <<loadVars, inputVars, localVars, outcomeVars, engineVars, logVars>>

RunLoadEnter ==
    /\ pc = "load"
    /\ lpc[Run] = "idle"
    /\ LoadEnter(Run)
    /\ Silent
    /\ UNCHANGED frameVars
    /\ UNCHANGED <<inputVars, pc, localVars, outcomeVars, engineVars, logVars>>

RunLoadResolve ==
    /\ pc = "load"
    /\ LoadResolve(Run)
    /\ Silent
    /\ UNCHANGED frameVars
    /\ UNCHANGED <<inputVars, pc, localVars, outcomeVars, engineVars, logVars>>

RunLoadReject ==
    /\ pc = "load"
    /\ LoadReject(Run)
    /\ Silent
    /\ UNCHANGED frameVars
    /\ UNCHANGED <<inputVars, pc, localVars, outcomeVars, engineVars, logVars>>

\* The await of loadFFmpeg settles: the run goes on to the font (with
\* subtitles) or to the first loop, or rejects with the load's failure.
Acquired ==
    /\ pc = "load"
    /\ \/ /\ lpc[Run] = "returned"
          /\ pc' = IF includeSubtitles THEN "font" ELSE "prep"
          /\ UNCHANGED outcomeVars
       \/ /\ lpc[Run] = "rejected"
          /\ Reject(Failure("load"))
    /\ Silent
    /\ UNCHANGED frameVars
    /\ UNCHANGED <<loadVars, inputVars, localVars, engineVars, logVars>>

\* One pass of the url loop of loadFontForSubtitles (after createDir, whose
\* failure is ignored): the font is fetched and written and the function
\* returns, or the url is skipped (fetch throws, !res.ok, or arrayBuffer or
\* writeFile throws); after the last url the function returns without a font.
FontTryNoReturn ==
    /\ pc = "font"
    /\ \/ /\ fetchLog' = Append(fetchLog, Fetched(fontUrl, "written"))
          /\ written' = Append(written, FontFile)
       \/ /\ fetchLog' = Append(fetchLog, Fetched(fontUrl, "skipped"))
          /\ UNCHANGED written
    /\ \/ /\ fontUrl < Len(Urls)
          /\ fontUrl' = fontUrl + 1
          /\ UNCHANGED pc
       \/ /\ fontUrl = Len(Urls)
          /\ pc' = "prep"
          /\ UNCHANGED fontUrl
    /\ Silent
    /\ UNCHANGED <<runsVars, fnVars, uiVars, appVars>>
    /\ UNCHANGED <<loadVars, inputVars, i, attempt, audioExts, audioDurations,
                   sceneVideos, currentStep, listeners, concatList, outcomeVars,
                   engineVars, execLog>>

FontTry ==
    /\ pc = "font"
    /\ \/ /\ fetchLog' = Append(fetchLog, Fetched(fontUrl, "written"))
          /\ written' = Append(written, FontFile)
          /\ pc' = "prep"
          /\ UNCHANGED fontUrl
       \/ /\ fetchLog' = Append(fetchLog, Fetched(fontUrl, "skipped"))
          /\ fontUrl < Len(Urls)
          /\ fontUrl' = fontUrl + 1
          /\ UNCHANGED <<pc, written>>
       \/ /\ fetchLog' = Append(fetchLog, Fetched(fontUrl, "skipped"))
          /\ fontUrl = Len(Urls)
          /\ pc' = "prep"
          /\ UNCHANGED <<fontUrl, written>>
    /\ Silent
    /\ UNCHANGED <<runsVars, fnVars, uiVars, appVars>>
    /\ UNCHANGED <<loadVars, inputVars, i, attempt, audioExts, audioDurations,
                   sceneVideos, currentStep, listeners, concatList, outcomeVars,
                   engineVars, execLog>>

\* One iteration of the first loop: the media check, fetchFile of both
\* blobs, the extension, the duration probe and the two writes, each of
\* which may reject.  fetchFile of a null blob yields empty data; the probe
\* of a null blob throws.
PrepScene ==
    /\ pc = "prep"
    /\ i < Len(scenes)
    /\ LET s == scenes[i + 1] IN
       \/ /\ MissingMedia(s)
          /\ Reject(MissingError(i, s))
          /\ UNCHANGED <<i, audioExts, audioDurations, written>>
       \/ /\ ~MissingMedia(s)
          /\ Reject(Failure("fetch"))
          /\ UNCHANGED <<i, audioExts, audioDurations, written>>
       \/ /\ ~MissingMedia(s)
          /\ audioExts' = Append(audioExts, AudioExt(s))
          /\ \/ /\ Reject(Failure("probe"))
                /\ UNCHANGED <<i, audioDurations, written>>
             \/ /\ s.audioBlob # NoBlob
                /\ audioDurations' = Append(audioDurations, s.audioBlob.duration)
                /\ \/ /\ Reject(Failure("write"))
                      /\ UNCHANGED <<i, written>>
                   \/ /\ Reject(Failure("write"))
                      /\ written' = Append(written, ImageFile(i))
                      /\ UNCHANGED i
                   \/ /\ written' = written \o <<ImageFile(i), AudioFile(i, AudioExt(s))>>
                      /\ i' = i + 1
                      /\ UNCHANGED <<pc, outcomeVars>>
    /\ Silent
    /\ UNCHANGED frameVars
    /\ UNCHANGED <<loadVars, inputVars, fontUrl, attempt, sceneVideos, currentStep,
                   listeners, concatList, engineVars, execLog>>

\* After the first loop: let currentStep = 0; f.on('progress', ...)
Subscribe ==
    /\ pc = "prep"
    /\ i = Len(scenes)
    /\ currentStep' = 0
    /\ listeners' = Append(listeners, runId)
    /\ i' = 0
    /\ pc' = "render"
    /\ Silent
    /\ UNCHANGED frameVars
    /\ UNCHANGED <<loadVars, inputVars, fontUrl, attempt, audioExts, audioDurations,
                   sceneVideos, concatList, outcomeVars, engineVars, logVars>>

\* Head of an iteration of the second loop: currentStep = i, the scene's
\* progress call, the write of the srt file and the exec of the try block.
RenderBegin ==
    /\ pc = "render"
    /\ i < Len(scenes)
    /\ currentStep' = i
    /\ Emit(<<ProgressCall(StepFraction(i), i + 1, Len(scenes))>>)
    /\ \/ /\ Reject(Failure("write"))
          /\ UNCHANGED <<attempt, engineVars, logVars>>
       \/ /\ written' = Append(written, SrtFile(i))
          /\ execLog' = Append(execLog, EncodeCmd(i, FirstVf(i)))
          /\ attempt' = 1
          /\ evCount' = 0
          /\ lastP' = 0
          /\ pc' = "exec"
          /\ UNCHANGED outcomeVars
    /\ UNCHANGED frameVars
    /\ UNCHANGED <<loadVars, inputVars, i, fontUrl, audioExts, audioDurations,
                   sceneVideos, listeners, concatList>>

\* The engine reports progress of the running command: every subscribed
\* listener computes the overall fraction and calls onProgress.  Within one
\* command the engine's progress does not go back.
EngineProgress ==
    /\ pc \in {"exec", "concat"}
    /\ evCount < MaxEvents
    /\ \E p \in lastP..PMax :
          /\ lastP' = p
          /\ Emit([l \in DOMAIN listeners |->
                     IF listeners[l] = runId
                     THEN ProgressCall(Overall(currentStep, p), CurrentScene(currentStep),
                                       Len(scenes))
                     ELSE StaleCall(ClosureOf(listeners[l]), p)])
    /\ evCount' = evCount + 1
    /\ UNCHANGED frameVars
    /\ UNCHANGED <<loadVars, inputVars, pc, localVars, outcomeVars, logVars>>

\* The running scene encode succeeds: sceneVideos.push(out), next iteration.
ExecOk ==
    /\ pc = "exec"
    /\ execLog' = SetResult(execLog, "ok")
    /\ sceneVideos' = Push(sceneVideos, VideoFile(i))
    /\ i' = i + 1
    /\ pc' = "render"
    /\ Silent
    /\ UNCHANGED frameVars
    /\ UNCHANGED <<loadVars, inputVars, fontUrl, attempt, audioExts, audioDurations,
                   currentStep, listeners, concatList, outcomeVars, engineVars, written>>

\* The running scene encode fails: the catch block issues the second exec
\* with the subtitle-free chain; a failure of that exec rejects the run.
ExecFail ==
    /\ pc = "exec"
    /\ \/ /\ Catches(attempt)
          /\ execLog' = Append(SetResult(execLog, "failed"), EncodeCmd(i, RetryVf(i)))
          /\ attempt' = attempt + 1
          /\ evCount' = 0
          /\ lastP' = 0
          /\ UNCHANGED <<pc, outcomeVars>>
       \/ /\ ~Catches(attempt)
          /\ execLog' = SetResult(execLog, "failed")
          /\ Reject(Failure("encode"))
          /\ UNCHANGED <<attempt, engineVars>>
    /\ Silent
    /\ UNCHANGED frameVars
    /\ UNCHANGED <<loadVars, inputVars, i, fontUrl, audioExts, audioDurations,
                   sceneVideos, currentStep, listeners, concatList, written>>

\* After the second loop: the manifest is written, currentStep = scenes.length,
\* the merge progress call, and the concatenation exec.
WriteManifest ==
    /\ pc = "render"
    /\ i = Len(scenes)
    /\ \/ /\ Reject(Failure("write"))
          /\ Silent
          /\ UNCHANGED <<currentStep, concatList, engineVars, logVars>>
       \/ /\ concatList' = Manifest(sceneVideos)
          /\ written' = Append(written, ConcatFile)
          /\ currentStep' = Len(scenes)
          /\ Emit(<<ProgressCall(StepFraction(Len(scenes)), NullScene, Len(scenes))>>)
          /\ execLog' = Append(execLog, ConcatCmd)
          /\ evCount' = 0
          /\ lastP' = 0
          /\ pc' = "concat"
          /\ UNCHANGED outcomeVars
    /\ UNCHANGED frameVars
    /\ UNCHANGED <<loadVars, inputVars, i, fontUrl, attempt, audioExts, audioDurations,
                   sceneVideos, listeners>>

\* The concatenation exec succeeds: output.mp4 is read next.
ConcatOk ==
    /\ pc = "concat"
    /\ execLog' = SetResult(execLog, "ok")
    /\ pc' = "read"
    /\ Silent
    /\ UNCHANGED frameVars
    /\ UNCHANGED <<loadVars, inputVars, localVars, outcomeVars, engineVars, written>>

ConcatFailIgnored ==
    /\ pc = "concat"
    /\ execLog' = SetResult(execLog, "failed")
    /\ pc' = "read"
    /\ Silent
    /\ UNCHANGED frameVars
    /\ UNCHANGED <<loadVars, inputVars, localVars, outcomeVars, engineVars, written>>

ConcatFailRetried ==
    /\ pc = "concat"
    /\ \/ /\ Len(execLog) <= Len(scenes) + 1
          /\ execLog' = Append(SetResult(execLog, "failed"), ConcatCmd)
          /\ UNCHANGED <<pc, outcomeVars>>
       \/ /\ Len(execLog) > Len(scenes) + 1
          /\ execLog' = SetResult(execLog, "failed")
          /\ Reject(Failure("concat"))
    /\ Silent
    /\ UNCHANGED frameVars
    /\ UNCHANGED <<loadVars, inputVars, localVars, engineVars, written>>

\* The concatenation exec fails: the run rejects.
ConcatFail ==
    /\ pc = "concat"
    /\ execLog' = SetResult(execLog, "failed")
    /\ Reject(Failure("concat"))
    /\ Silent
    /\ UNCHANGED frameVars
    /\ UNCHANGED <<loadVars, inputVars, localVars, engineVars, written>>

\* const data = await f.readFile('output.mp4'); return new Blob([data])
ReadOutput ==
    /\ pc = "read"
    /\ \/ /\ blob' = OutputFile
          /\ pc' = "resolved"
          /\ UNCHANGED error
       \/ Reject(Failure("read"))
    /\ Silent
    /\ UNCHANGED frameVars
    /\ UNCHANGED <<loadVars, inputVars, localVars, engineVars, logVars>>

NoOutput == NoFile

\* The locals and the logs of a run at the call of assembleVideo.
RunStart ==
    /\ pc = "idle"
    /\ i = 0
    /\ fontUrl = 1
    /\ attempt = 0
    /\ audioExts = <<>>
    /\ audioDurations = <<>>
    /\ sceneVideos = <<>>
    /\ currentStep = 0
    /\ listeners = <<>>
    /\ concatList = <<>>
    /\ error = NoError
    /\ blob = NoOutput
    /\ evCount = 0
    /\ lastP = 0
    /\ written = <<>>
    /\ execLog = <<>>
    /\ calls = <<>>
    /\ prevFraction = NoFraction
    /\ lastFraction = NoFraction
    /\ firstFraction = NoFraction
    /\ nZero = 0
    /\ nOne = 0
    /\ fetchLog = <<>>

NoMessage == ""

\* handleAssemble up to its call of assembleVideo, in a freshly mounted App:
\* setAssembleProgress(0); setAssembleStatus({ currentScene: null,
\* totalScenes: scenes.length }); setError(null).
UiStart ==
    /\ assembleProgress = Fraction(0, 1)
    /\ assembleStatus = [currentScene |-> NullScene, totalScenes |-> Len(scenes)]
    /\ outputBlob = NoOutput
    /\ uiError = NoMessage
    /\ handler = "awaiting"

NullIndex == 0 - 1
NoResponse == [getter |-> <<>>, parts |-> <<>>, text |-> [array |-> "none", elements |-> <<>>]]
NoReply == [outcome |-> "none", text |-> "", functionCalled |-> FALSE]

\* The App as mounted: no scenes, nothing in flight, no assistant message.
AppIdle ==
    /\ appScenes = <<>>
    /\ scriptNo = 0
    /\ loading = FALSE
    /\ generatingIndex = NullIndex
    /\ requests = {}
    /\ chat = TRUE
    /\ response = NoResponse
    /\ reply = NoReply
    /\ scriptCalls = <<>>

\* No function application is modelled.
FnIdle ==
    /\ narration = <<>>
    /\ startSec = 0
    /\ endSec = 0
    /\ cueText = <<>>
    /\ srtDoc = NoDoc
    /\ fnpc = "idle"

\* The first run on a fresh engine.
FirstRun ==
    /\ runId = 1
    /\ stale = <<>>
    /\ lastStatus = [r \in 1..MaxRuns |-> NoStatus]

RunInit ==
    /\ scenes \in SceneLists
    /\ includeSubtitles \in BOOLEAN
    /\ RunStart
    /\ FirstRun
    /\ UiStart
    /\ FnIdle
    /\ AppIdle

Init == LoadInit /\ RunInit

Next ==
    \/ Call
    \/ RunLoadEnter
    \/ RunLoadResolve
    \/ RunLoadReject
    \/ Acquired
    \/ FontTry
    \/ PrepScene
    \/ Subscribe
    \/ RenderBegin
    \/ EngineProgress
    \/ ExecOk
    \/ ExecFail
    \/ WriteManifest
    \/ ConcatOk
    \/ ConcatFail
    \/ ReadOutput

Spec == Init /\ [][Next]_vars

(***************************************************************************)
(* Sequential runs on the cached engine                                    *)
(*                                                                         *)
(* handleAssemble calls assembleVideo again once the previous call has     *)
(* settled, with a scene list in which every scene has image and audio.    *)
(***************************************************************************)
\* scenes.filter((s) => s.imageBlob && s.audioBlob), when it keeps every scene
ReadyScenes == {s \in SceneKinds : ~MissingMedia(s)}
ReadySceneLists == UNION { [1..n -> ReadyScenes] : n \in 0..MaxRunScenes }

InitRuns ==
    /\ LoadInit
    /\ scenes \in ReadySceneLists
    /\ includeSubtitles \in BOOLEAN
    /\ RunStart
    /\ FirstRun
    /\ UiStart
    /\ FnIdle
    /\ AppIdle

\* The locals of the next call of assembleVideo: fresh locals and a fresh
\* onProgress; the module variables of loadFFmpeg and the listeners
\* subscribed on the engine stay, and the listener of the settled run keeps
\* its closure.
NextCall ==
    /\ runId' = runId + 1
    /\ stale' = IF \E l \in DOMAIN listeners : listeners[l] = runId
                THEN Append(stale, [run |-> runId, currentStep |-> currentStep,
                                    nScenes |-> Len(scenes)])
                ELSE stale
    /\ lpc' = [lpc EXCEPT ![Run] = "idle"]
    /\ pc' = "idle"
    /\ i' = 0
    /\ fontUrl' = 1
    /\ attempt' = 0
    /\ audioExts' = <<>>
    /\ audioDurations' = <<>>
    /\ sceneVideos' = <<>>
    /\ currentStep' = 0
    /\ concatList' = <<>>
    /\ error' = NoError
    /\ blob' = NoOutput
    /\ evCount' = 0
    /\ lastP' = 0
    /\ written' = <<>>
    /\ execLog' = <<>>
    /\ calls' = <<>>
    /\ prevFraction' = NoFraction
    /\ lastFraction' = NoFraction
    /\ firstFraction' = NoFraction
    /\ nZero' = 0
    /\ nOne' = 0
    /\ fetchLog' = <<>>
    /\ UNCHANGED <<ffmpeg, loaded, nInstances, initialized, mine, ret, listeners, fnVars,
                   lastStatus, appVars>>

\* The App's state after the settled call and at the next one: the
\* continuation of the previous handleAssemble (setOutputBlob(blob) when the
\* call resolved), then the next handleAssemble up to its call of
\* assembleVideo.
NewRun ==
    /\ pc \in {"resolved", "rejected"}
    /\ runId < MaxRuns
    /\ scenes' \in ReadySceneLists
    /\ includeSubtitles' \in BOOLEAN
    /\ NextCall
    /\ outputBlob' = IF pc = "resolved" THEN blob ELSE outputBlob
    /\ assembleProgress' = Fraction(0, 1)
    /\ assembleStatus' = [currentScene |-> NullScene, totalScenes |-> Len(scenes')]
    /\ uiError' = NoMessage
    /\ UNCHANGED handler

NextRuns == Next \/ NewRun

SpecRuns == InitRuns /\ [][NextRuns]_vars

(***************************************************************************)
(* The App around assembleVideo: the Generate Video button, handleAssemble *)
(* and its continuation                                                    *)
(*                                                                         *)
(* The video section is rendered when scenes.length > 0.  A click made     *)
(* while an earlier handleAssemble still awaits its call is not followed:  *)
(* the model has the locals of one call of assembleVideo.                  *)
(***************************************************************************)
UiSceneLists == UNION { [1..n -> SceneKinds] : n \in 1..MaxRunScenes }

ReadyImageOnly(list) == SelectSeq(list, LAMBDA s : s.imageBlob # NoBlob)

\* scenes.filter((s) => s.imageBlob && s.audioBlob)
Ready(list) == SelectSeq(list, LAMBDA s : s.imageBlob # NoBlob /\ s.audioBlob # NoBlob)

\* disabled={assembleProgress !== null && assembleProgress < 1}
ButtonDisabled == ~assembleProgress.isNull /\ assembleProgress.num < assembleProgress.den

\* {assembleProgress === 1 && outputBlob && ( ... <video> ... )}
PreviewShown ==
    /\ ~assembleProgress.isNull
    /\ assembleProgress.num = assembleProgress.den
    /\ outputBlob # NoOutput

NotReadyMessage == "Generate images and audio for all scenes first"

\* err?.message || 'Failed to assemble video'
MessageOf(e) == "Failed: " \o e.kind

InitUi ==
    /\ LoadInit
    /\ scenes \in {list \in UiSceneLists : Len(Ready(list)) = Len(list)}
    /\ includeSubtitles \in BOOLEAN
    /\ RunStart
    /\ FirstRun
    /\ UiStart
    /\ FnIdle
    /\ AppIdle

\* A click on Generate Video: handleAssemble up to its await.  list and subs
\* are the App's scenes and includeSubtitles at the click.
HandleAssemble ==
    /\ handler = "none"
    /\ ~ButtonDisabled
    /\ \E list \in UiSceneLists, subs \in BOOLEAN :
          \/ /\ Len(Ready(list)) # Len(list)
             /\ uiError' = NotReadyMessage
             /\ UNCHANGED <<loadVars, runVars, fetchLog, runsVars, fnVars, outputBlob,
                            handler, appVars>>
          \/ /\ Len(Ready(list)) = Len(list)
             /\ runId < MaxRuns
             /\ scenes' = list
             /\ includeSubtitles' = subs
             /\ NextCall
             /\ assembleProgress' = Fraction(0, 1)
             /\ assembleStatus' = [currentScene |-> NullScene, totalScenes |-> Len(list)]
             /\ uiError' = NoMessage
             /\ handler' = "awaiting"
             /\ UNCHANGED outputBlob

\* The continuation of handleAssemble after its await: the lines after the
\* call when it resolved, the catch block when it rejected.
Settle ==
    /\ handler = "awaiting"
    /\ \/ /\ pc = "resolved"
          /\ outputBlob' = blob
          /\ assembleProgress' = Fraction(1, 1)
          /\ assembleStatus' = [currentScene |-> NullScene, totalScenes |-> Len(scenes)]
          /\ UNCHANGED uiError
       \/ /\ pc = "rejected"
          /\ uiError' = MessageOf(error)
          /\ assembleProgress' = NullProgress
          /\ assembleStatus' = [currentScene |-> NullScene, totalScenes |-> 0]
          /\ UNCHANGED outputBlob
    /\ handler' = "none"
    /\ UNCHANGED <<loadVars, inputVars, pc, localVars, outcomeVars, engineVars, logVars,
                   calls, prevFraction, lastFraction, firstFraction, nZero, nOne,
                   lastStatus, fetchLog, runsVars, fnVars, appVars>>

NextUi == Next \/ HandleAssemble \/ Settle

SpecUi == InitUi /\ [][NextUi]_vars

(***************************************************************************)
(* The scene editor: Generate Scenes, Generate Image, Generate Audio       *)
(*                                                                         *)
(* A scene carries the number of the script it came with, and a blob the   *)
(* script and index of the scene it was generated for.  Indices are        *)
(* 0-based as in the code.                                                 *)
(***************************************************************************)
NoMedia == [script |-> 0, index |-> NullIndex]

\* initialScene: the blobs are null; description and narration may be ''.
initialScene(script, item) ==
    [script |-> script, description |-> item.description, narration |-> item.narration,
     imageBlob |-> NoMedia, audioBlob |-> NoMedia]

\* What generateScenes can resolve with.
Items == [description : BOOLEAN, narration : BOOLEAN]
GeneratedLists == UNION { [1..n -> Items] : n \in 0..MaxScriptScenes }

\* The App with nothing assembled: assembleProgress is null.
UiIdle ==
    /\ assembleProgress = NullProgress
    /\ assembleStatus = [currentScene |-> NullScene, totalScenes |-> 0]
    /\ outputBlob = NoOutput
    /\ uiError = NoMessage
    /\ handler = "none"

InitEdit ==
    /\ LoadInit
    /\ scenes = <<>>
    /\ includeSubtitles = TRUE
    /\ RunStart
    /\ FirstRun
    /\ UiIdle
    /\ FnIdle
    /\ AppIdle

\* What the handlers of the scene editor leave alone.
editFrame == <<loadVars, runVars, fetchLog, runsVars, fnVars, outputBlob, handler, chatVars>>

\* handleGenerateScenes up to its await.  The button is disabled while
\* loading; movieIdea is taken to be non-empty.
HandleGenerateScenes ==
    /\ ~loading
    /\ loading' = TRUE
    /\ uiError' = NoMessage
    /\ UNCHANGED <<appScenes, scriptNo, generatingIndex, requests>>
    /\ UNCHANGED editFrame

\* generateScenes settles: setScenes(generated.map(initialScene)), or
\* setError; finally setLoading(false).
ScenesSettle ==
    /\ loading
    /\ \/ /\ scriptNo < MaxScripts
          /\ \E generated \in GeneratedLists :
                appScenes' = [k \in DOMAIN generated |-> initialScene(scriptNo + 1, generated[k])]
          /\ scriptNo' = scriptNo + 1
          /\ UNCHANGED uiError
       \/ /\ uiError' = "Failed to generate scenes"
          /\ UNCHANGED <<appScenes, scriptNo>>
    /\ loading' = FALSE
    /\ UNCHANGED <<generatingIndex, requests>>
    /\ UNCHANGED editFrame

\* The request for the scene at index: what it was made for.
Request(kind, index) == [kind |-> kind, index |-> index, script |-> appScenes[index + 1].script]

\* handleGenerateImage(index) up to its await; without a description it
\* returns at once.
HandleGenerateImage ==
    \E index \in 0..(Len(appScenes) - 1) :
        /\ appScenes[index + 1].description
        /\ Cardinality(requests) < MaxRequests
        /\ generatingIndex' = index
        /\ uiError' = NoMessage
        /\ requests' = requests \cup {Request("image", index)}
        /\ UNCHANGED <<appScenes, scriptNo, loading>>
        /\ UNCHANGED editFrame

\* handleGenerateAudio(index) up to its await; without a narration it
\* returns at once.
HandleGenerateAudio ==
    \E index \in 0..(Len(appScenes) - 1) :
        /\ appScenes[index + 1].narration
        /\ Cardinality(requests) < MaxRequests
        /\ generatingIndex' = index
        /\ uiError' = NoMessage
        /\ requests' = requests \cup {Request("audio", index)}
        /\ UNCHANGED <<appScenes, scriptNo, loading>>
        /\ UNCHANGED editFrame

\* The blob a request resolved with.
BlobOf(req) == [script |-> req.script, index |-> req.index]

\* prev.map((s, i) => (i === index ? { ...s, [field]: blob } : s))
Store(prev, req, field) ==
    [k \in DOMAIN prev |->
        IF k - 1 = req.index THEN [prev[k] EXCEPT ![field] = BlobOf(req)] ELSE prev[k]]

\* generateImage settles: the blob is stored by index into the scenes the
\* App has now, or setError; finally setGeneratingIndex(null).
ImageSettle ==
    \E req \in requests :
        /\ req.kind = "image"
        /\ \/ /\ appScenes' = Store(appScenes, req, "imageBlob")
              /\ UNCHANGED uiError
           \/ /\ uiError' = "Failed to generate image"
              /\ UNCHANGED appScenes
        /\ generatingIndex' = NullIndex
        /\ requests' = requests \ {req}
        /\ UNCHANGED <<scriptNo, loading>>
        /\ UNCHANGED editFrame

\* generateTTS settles: as for the image, with audioBlob.
AudioSettle ==
    \E req \in requests :
        /\ req.kind = "audio"
        /\ \/ /\ appScenes' = Store(appScenes, req, "audioBlob")
              /\ UNCHANGED uiError
           \/ /\ uiError' = "Failed to generate audio"
              /\ UNCHANGED appScenes
        /\ generatingIndex' = NullIndex
        /\ requests' = requests \ {req}
        /\ UNCHANGED <<scriptNo, loading>>
        /\ UNCHANGED editFrame

NextEdit ==
    \/ HandleGenerateScenes
    \/ ScenesSettle
    \/ HandleGenerateImage
    \/ HandleGenerateAudio
    \/ ImageSettle
    \/ AudioSettle

SpecEdit == InitEdit /\ [][NextEdit]_vars

(***************************************************************************)
(* sendAssistantMessage                                                    *)
(*                                                                         *)
(* A function call of the response is its name and whether it has args.    *)
(* The text of the response is what tryParseScriptFromText makes of it: no  *)
(* bracketed part, a bracketed part that is not JSON, or the array parsed   *)
(* from it, each element usable (it has a description or a narration) or    *)
(* not; hasText tells whether the trimmed text is empty.                    *)
(***************************************************************************)
FunctionCalls ==
    [name : {"generateMovieScript", "other"}, args : BOOLEAN]
CallLists == UNION { [1..n -> FunctionCalls] : n \in 0..MaxFunctionCalls }
ElementLists == UNION { [1..n -> BOOLEAN] : n \in 0..MaxElements }
ResponseTexts ==
    [array : {"none", "invalid"}, elements : {<<>>}]
        \cup [array : {"parsed"}, elements : ElementLists]
        \cup {[array |-> "empty", elements |-> <<>>]}
Responses == [getter : CallLists, parts : CallLists, text : ResponseTexts]

ConfirmText == "I've added the script to your scene editor. You can review and edit it there, then generate images and audio for each scene."
ModelText(text) == IF text.array = "empty" THEN "" ELSE "text of the response"

\* let functionCalls = response?.functionCalls; if (!functionCalls?.length)
\* the function calls of the parts are taken.
ExtractCalls(r) == IF Len(r.getter) > 0 THEN r.getter ELSE r.parts

\* fc?.name === 'generateMovieScript' && fc?.args
IsScriptCall(fc) == fc.name = "generateMovieScript" /\ fc.args

\* tryParseScriptFromText: null (<<>>) when the text is empty, has no
\* bracketed part, does not parse or holds no usable element; else the
\* usable elements.
tryParseScriptFromText(text) ==
    IF text.array # "parsed" THEN <<>>
    ELSE SelectSeq(text.elements, LAMBDA usable : usable)

InitChat ==
    /\ LoadInit
    /\ scenes = <<>>
    /\ includeSubtitles = TRUE
    /\ RunStart
    /\ FirstRun
    /\ UiIdle
    /\ FnIdle
    /\ appScenes = <<>>
    /\ scriptNo = 0
    /\ loading = FALSE
    /\ generatingIndex = NullIndex
    /\ requests = {}
    /\ chat \in BOOLEAN
    /\ response \in Responses
    /\ reply = NoReply
    /\ scriptCalls = <<>>

Returned(text, called) == [outcome |-> "returned", text |-> text, functionCalled |-> called]

\* The whole call of sendAssistantMessage for the response the chat gave.
SendAssistantMessage ==
    /\ reply = NoReply
    /\ LET functionCalls == ExtractCalls(response)
           parsed == tryParseScriptFromText(response.text)
       IN IF ~chat
          THEN /\ reply' = [outcome |-> "rejected", text |-> "API key not configured",
                            functionCalled |-> FALSE]
               /\ UNCHANGED scriptCalls
          ELSE IF Len(functionCalls) > 0
          THEN /\ scriptCalls' = SelectSeq(functionCalls, IsScriptCall)
               /\ reply' = Returned(ConfirmText, TRUE)
          ELSE IF parsed # <<>>
          THEN /\ scriptCalls' = <<parsed>>
               /\ reply' = Returned(ConfirmText, TRUE)
          ELSE /\ reply' = Returned(ModelText(response.text), FALSE)
               /\ UNCHANGED scriptCalls
    /\ UNCHANGED <<chat, response>>
    /\ UNCHANGED <<loadVars, runVars, fetchLog, runsVars, fnVars, uiVars, editVars>>

NextChat == SendAssistantMessage

SpecChat == InitChat /\ [][NextChat]_vars

(***************************************************************************)
(* Overlapping calls of loadFFmpeg, without an assembly run                *)
(***************************************************************************)
LoadIdleRun ==
    /\ scenes = <<>>
    /\ includeSubtitles = TRUE
    /\ RunStart
    /\ FirstRun
    /\ UiStart
    /\ FnIdle
    /\ AppIdle

InitLoad == LoadInit /\ LoadIdleRun

CallLoad == \E c \in Callers : LoadEnter(c) /\ UNCHANGED <<runVars, frameVars>>
ResolveLoad == \E c \in Callers : LoadResolve(c) /\ UNCHANGED <<runVars, frameVars>>
RejectLoad == \E c \in Callers : LoadReject(c) /\ UNCHANGED <<runVars, frameVars>>

NextLoad == CallLoad \/ ResolveLoad \/ RejectLoad

SpecLoad == InitLoad /\ [][NextLoad]_vars

(***************************************************************************)
(* cleanNarrationForSubtitles                                              *)
(*                                                                         *)
(* A string is a sequence of one-character strings.  A null narration is   *)
(* NullText.                                                               *)
(***************************************************************************)
Alphabet == {"[", "]", " ", "\n", "a"}
NullText == <<"null">>
Texts == UNION { [1..n -> Alphabet] : n \in 0..MaxNarration }

\* \s
IsSpace(ch) == ch \in {" ", "\n"}

\* text || ''
OrEmpty(text) == IF text = NullText \/ text = <<>> THEN <<>> ELSE text

\* The position of the first "]" after position p, or 0.
ClosingAfter(s, p) ==
    IF \E q \in (p + 1)..Len(s) : s[q] = "]"
    THEN CHOOSE q \in (p + 1)..Len(s) :
             s[q] = "]" /\ \A m \in (p + 1)..(q - 1) : s[m] # "]"
    ELSE 0

RECURSIVE StripFrom(_, _)
\* The scan of .replace(/\[[^\]]*\]/g, '') from position p: a "[" that has a
\* "]" after it is dropped up to the first such "]".
StripFrom(s, p) ==
    IF p > Len(s) THEN <<>>
    ELSE IF s[p] = "[" /\ ClosingAfter(s, p) # 0
         THEN StripFrom(s, ClosingAfter(s, p) + 1)
         ELSE <<s[p]>> \o StripFrom(s, p + 1)

\* The replace without the g flag: the first match only.
StripFirst(s) ==
    IF \E p \in DOMAIN s : s[p] = "[" /\ ClosingAfter(s, p) # 0
    THEN LET p == CHOOSE p \in DOMAIN s :
                      /\ s[p] = "[" /\ ClosingAfter(s, p) # 0
                      /\ \A m \in 1..(p - 1) : ~(s[m] = "[" /\ ClosingAfter(s, m) # 0)
         IN SubSeq(s, 1, p - 1) \o SubSeq(s, ClosingAfter(s, p) + 1, Len(s))
    ELSE s

\* .replace(/\[[^\]]*\]/g, '')
Strip(s) == StripFrom(s, 1)

RECURSIVE CollapseFrom(_, _)
\* The scan of .replace(/\s+/g, ' ') from position p.
CollapseFrom(s, p) ==
    IF p > Len(s) THEN <<>>
    ELSE IF IsSpace(s[p])
         THEN IF p > 1 /\ IsSpace(s[p - 1]) THEN CollapseFrom(s, p + 1)
              ELSE <<" ">> \o CollapseFrom(s, p + 1)
         ELSE <<s[p]>> \o CollapseFrom(s, p + 1)

\* .replace(/\s+/g, ' ')
Collapse(s) == CollapseFrom(s, 1)

RECURSIVE TrimStart(_)
TrimStart(s) == IF s # <<>> /\ IsSpace(s[1]) THEN TrimStart(Tail(s)) ELSE s

RECURSIVE TrimEnd(_)
TrimEnd(s) ==
    IF s # <<>> /\ IsSpace(s[Len(s)]) THEN TrimEnd(SubSeq(s, 1, Len(s) - 1)) ELSE s

\* .trim()
Trim(s) == TrimEnd(TrimStart(s))

\* (text || '').replace(...).replace(...).trim() || ' '
cleanNarrationForSubtitles(text) ==
    LET r == Trim(Collapse(Strip(OrEmpty(text))))
    IN IF r = <<>> THEN <<" ">> ELSE r

InitClean ==
    /\ LoadInit
    /\ scenes = <<>>
    /\ includeSubtitles = TRUE
    /\ RunStart
    /\ FirstRun
    /\ UiStart
    /\ narration \in Texts \cup {NullText}
    /\ startSec = 0
    /\ endSec = 0
    /\ cueText = <<>>
    /\ srtDoc = NoDoc
    /\ fnpc = "input"
    /\ AppIdle

\* const text = cleanNarrationForSubtitles(narration)
Clean ==
    /\ fnpc = "input"
    /\ cueText' = cleanNarrationForSubtitles(narration)
    /\ fnpc' = "done"
    /\ UNCHANGED <<narration, startSec, endSec, srtDoc>>
    /\ UNCHANGED <<loadVars, runVars, fetchLog, runsVars, uiVars, appVars>>

NextClean == Clean

SpecClean == InitClean /\ [][NextClean]_vars

(***************************************************************************)
(* sceneToSRT                                                              *)
(*                                                                         *)
(* A time is a number of ticks, TicksPerSec ticks to the second, so that   *)
(* the rounding of toFixed(3) to whole milliseconds is visible.            *)
(***************************************************************************)
TicksPerSec == 10000
Fractions == {0, 5000, 9996}
LongTimes == {59, 3599, 3600, 86399}
Times == { sec * TicksPerSec + f : sec \in (0..MaxSeconds) \cup LongTimes, f \in Fractions }

DigitChar(d) == <<"0", "1", "2", "3", "4", "5", "6", "7", "8", "9">>[d + 1]

RECURSIVE Digits(_)
\* String(n) of a non-negative integer
Digits(n) == IF n < 10 THEN <<DigitChar(n)>> ELSE Digits(n \div 10) \o <<DigitChar(n % 10)>>

RECURSIVE PadStart(_, _, _)
\* s.padStart(len, ch): pads, never truncates
PadStart(s, len, ch) == IF Len(s) >= len THEN s ELSE PadStart(<<ch>> \o s, len, ch)

\* x.toFixed(3).replace('.', ',') of x = ticks / TicksPerSec seconds: x rounded
\* to whole milliseconds, the integer part with as many digits as it has.
ToFixed3Comma(ticks) ==
    LET ms == (ticks * 1000 + TicksPerSec \div 2) \div TicksPerSec
    IN Digits(ms \div 1000) \o <<",">> \o PadStart(Digits(ms % 1000), 3, "0")

\* fmt of sceneToSRT
fmt(s) ==
    LET h == s \div (3600 * TicksPerSec)
        m == (s % (3600 * TicksPerSec)) \div (60 * TicksPerSec)
        sec == ToFixed3Comma(s % (60 * TicksPerSec))
    IN PadStart(Digits(h), 2, "0") \o <<":">> \o PadStart(Digits(m), 2, "0")
           \o <<":">> \o sec

\* `1\n${fmt(startSec)} --> ${fmt(endSec)}\n${text}\n`, as the parts of the
\* template.
sceneToSRT(text, start, end) ==
    [index |-> <<"1">>, start |-> fmt(start), end |-> fmt(end),
     text |-> cleanNarrationForSubtitles(text)]

ShortTexts == {t \in Texts : Len(t) <= 1}

InitSrt ==
    /\ LoadInit
    /\ scenes = <<>>
    /\ includeSubtitles = TRUE
    /\ RunStart
    /\ FirstRun
    /\ UiStart
    /\ narration \in ShortTexts
    /\ startSec \in Times
    /\ endSec \in Times
    /\ cueText = <<>>
    /\ srtDoc = NoDoc
    /\ fnpc = "input"
    /\ AppIdle

\* const srtContent = sceneToSRT(narration, startSec, endSec)
Format ==
    /\ fnpc = "input"
    /\ srtDoc' = sceneToSRT(narration, startSec, endSec)
    /\ cueText' = srtDoc'.text
    /\ fnpc' = "done"
    /\ UNCHANGED <<narration, startSec, endSec>>
    /\ UNCHANGED <<loadVars, runVars, fetchLog, runsVars, uiVars, appVars>>

NextSrt == Format

SpecSrt == InitSrt /\ [][NextSrt]_vars

(***************************************************************************)
(* Properties                                                              *)
(***************************************************************************)
\* A scene without image or without audio, stated on the input alone.
LacksMedia(s) == s.imageBlob = NoBlob \/ s.audioBlob = NoBlob

\* The 1-based position of the first scene of the list that lacks media.
FirstLacking ==
    CHOOSE k \in DOMAIN scenes :
        /\ LacksMedia(scenes[k])
        /\ \A m \in 1..(k - 1) : ~LacksMedia(scenes[m])

\* The command at position j of execLog is the first encode of its scene.
IsFirstEncode(j) ==
    /\ execLog[j].kind = "encode"
    /\ \/ j = 1
       \/ execLog[j - 1].kind # "encode"
       \/ execLog[j - 1].scene # execLog[j].scene

\* The command at position j of execLog is a further encode of its scene.
IsRetryEncode(j) ==
    /\ execLog[j].kind = "encode"
    /\ ~IsFirstEncode(j)

EncodesOf(k) == {j \in DOMAIN execLog : execLog[j].kind = "encode" /\ execLog[j].scene = k}

SubtitleChain(k) == <<ScaleFilter, [name |-> "subtitles", file |-> SrtFile(k)], PadFilter>>
PlainChain == <<ScaleFilter, PadFilter>>

\* C1: when the run rejects because a scene lacks image or audio, no file
\* has been written to the engine in this run.
C1_NoWriteBeforeMissingReject ==
    error.kind = "missing" => written = <<>>

\* C2: a run that rejects because a scene lacks image or audio has executed
\* no engine command, and a run whose scene list holds such a scene never
\* executes one.
C2_NoExecOnMissingMedia ==
    /\ error.kind = "missing" => pc = "rejected" /\ execLog = <<>>
    /\ (\E k \in DOMAIN scenes : LacksMedia(scenes[k])) => execLog = <<>>

\* C2 witness: the run rejected for missing media at its second scene, after
\* the first scene was loaded into the engine.
C2_Witness ==
    /\ pc = "rejected"
    /\ error = [kind |-> "missing", scene |-> 2]
    /\ ImageFile(0) \in {written[k] : k \in DOMAIN written}

\* C3: the missing-media error names the 1-based position of the first scene
\* in list order that lacks image or audio.
C3_ErrorNamesFirstLackingPosition ==
    error.kind = "missing" => error.scene = FirstLacking

\* C3 witness: two scenes lack media, the error names position 1 although
\* that scene's sceneNumber is not 1.
C3_Witness ==
    /\ error = [kind |-> "missing", scene |-> 1]
    /\ Len(scenes) = 2
    /\ LacksMedia(scenes[1]) /\ LacksMedia(scenes[2])
    /\ scenes[1].sceneNumber # 1

\* C4: each fraction passed to onProgress is at least the fraction passed by
\* the call before it.
C4_ProgressNonDecreasing ==
    \A k \in DOMAIN calls :
        calls[k].fraction >= (IF k = 1 THEN prevFraction ELSE calls[k - 1].fraction)

\* C5: a resolved run has passed fraction 0 exactly once, as its first value,
\* and fraction 1 exactly once, as its last value.
C5_ExactlyOneZeroAndOne ==
    pc = "resolved" =>
        /\ nZero = 1 /\ firstFraction = 0
        /\ nOne = 1 /\ lastFraction = Den

\* C6: with subtitles on, every scene's first encode carries the subtitle
\* chain; a failed first encode is followed by exactly one more encode of the
\* scene, equal to it but for the subtitle-free chain; and once that retry
\* has succeeded the run goes on with the next scene and does not reject for
\* this scene's encode.
C6_SubtitleRetry ==
    includeSubtitles =>
        \A j \in DOMAIN execLog :
            /\ IsFirstEncode(j) => execLog[j].vf = SubtitleChain(execLog[j].scene)
            /\ (IsFirstEncode(j) /\ execLog[j].result = "failed") =>
                  /\ Cardinality(EncodesOf(execLog[j].scene)) = 2
                  /\ j + 1 \in DOMAIN execLog
                  /\ execLog[j + 1] = [execLog[j] EXCEPT !.vf = PlainChain,
                                                         !.result = execLog[j + 1].result]
            /\ (IsRetryEncode(j) /\ execLog[j].result = "ok") =>
                  /\ sceneVideos[execLog[j].scene + 1] = execLog[j].out
                  /\ i > execLog[j].scene
                  /\ error.kind # "encode"
                        \/ execLog[Len(execLog)].scene # execLog[j].scene

\* C6 witness: a resolved two-scene run with subtitles in which one scene was
\* retried and the other was encoded once, with the subtitle chain.
C6_Witness ==
    /\ pc = "resolved"
    /\ includeSubtitles
    /\ Len(scenes) = 2
    /\ \E j \in DOMAIN execLog : IsRetryEncode(j) /\ execLog[j].result = "ok"
    /\ \E k \in 0..1 :
          /\ Cardinality(EncodesOf(k)) = 1
          /\ \A j \in EncodesOf(k) : execLog[j].vf = SubtitleChain(k)

\* C7: once the retry encode of a scene has failed, the run is rejected, that
\* command is the last one issued, no manifest is written and no blob is
\* returned.
C7_RetryFailureAborts ==
    \A j \in DOMAIN execLog :
        (IsRetryEncode(j) /\ execLog[j].result = "failed") =>
            /\ pc = "rejected"
            /\ error.kind = "encode"
            /\ j = Len(execLog)
            /\ ConcatFile \notin {written[k] : k \in DOMAIN written}
            /\ concatList = <<>>
            /\ blob = NoOutput

\* C7 witness: the retry of the first of two scenes has failed.
C7_Witness ==
    /\ Len(scenes) = 2
    /\ \E j \in DOMAIN execLog :
          IsRetryEncode(j) /\ execLog[j].result = "failed" /\ execLog[j].scene = 0

\* C8: with subtitles off, every scene is encoded at most once and a failed
\* encode rejects the run.
C8_NoRetryWithoutSubtitles ==
    ~includeSubtitles =>
        \A j \in DOMAIN execLog :
            execLog[j].kind = "encode" =>
                /\ IsFirstEncode(j)
                /\ execLog[j].result = "failed" => pc = "rejected"

\* C9: commands run one at a time; the encodes go through the scenes in
\* ascending index order, each scene starting only after the scene before
\* it was encoded successfully; and the manifest lists the N segments of the
\* run in scene order.
C9_SequentialInOrder ==
    /\ \A j \in DOMAIN execLog :
          /\ execLog[j].result = "running" => j = Len(execLog)
          /\ IsFirstEncode(j) =>
                IF j = 1 THEN execLog[j].scene = 0
                ELSE /\ execLog[j - 1].kind = "encode"
                     /\ execLog[j - 1].result = "ok"
                     /\ execLog[j].scene = execLog[j - 1].scene + 1
          /\ IsRetryEncode(j) => execLog[j - 1].result = "failed"
          /\ execLog[j].kind = "concat" =>
                /\ j = Len(execLog)
                /\ \A k \in 0..(Len(scenes) - 1) :
                      \E m \in EncodesOf(k) : execLog[m].result = "ok"
    /\ ConcatFile \in {written[k] : k \in DOMAIN written} =>
          concatList = [k \in 1..Len(scenes) |-> <<"file", VideoFile(k - 1)>>]

\* C9 witness: a resolved run of two scenes.
C9_Witness ==
    /\ pc = "resolved"
    /\ Len(scenes) = 2
    /\ Len(concatList) = 2

\* No initialization has failed: every constructed instance has completed
\* its load or is still being awaited.
NoInitFailed ==
    \A k \in 1..nInstances :
        k \in initialized \/ \E c \in Callers : lpc[c] = "awaiting" /\ mine[c] = k

\* C10: as long as no initialization has failed, at most one engine instance
\* has been constructed and all calls that returned, returned the same one.
C10_SingleInitialization ==
    NoInitFailed =>
        /\ nInstances <= 1
        /\ \A c, d \in Callers :
              (lpc[c] = "returned" /\ lpc[d] = "returned") => ret[c] = ret[d]


\* C11: every instance a loadFFmpeg call has returned has completed its own
\* load.
C11_ReturnedInstanceInitialized ==
    \A c \in Callers : lpc[c] = "returned" => ret[c] \in initialized


\* The last encode issued for scene k succeeded.
FinalEncodeOk(k) ==
    /\ EncodesOf(k) # {}
    /\ \A j \in EncodesOf(k) :
          (\A m \in EncodesOf(k) : m <= j) => execLog[j].result = "ok"

\* C12: a run that resolved returned the blob read after a successful
\* concatenation of all N segments, each scene's last encode having
\* succeeded; a run that rejected returned no blob; and a blob exists only
\* in a resolved run.
C12_AllOrNothing ==
    /\ pc = "resolved" =>
          /\ blob = OutputFile
          /\ error = NoError
          /\ execLog # <<>>
          /\ execLog[Len(execLog)].kind = "concat"
          /\ execLog[Len(execLog)].result = "ok"
          /\ Len(concatList) = Len(scenes)
          /\ \A k \in 0..(Len(scenes) - 1) : FinalEncodeOk(k)
    /\ pc = "rejected" => blob = NoOutput /\ error # NoError
    /\ blob # NoOutput => pc = "resolved"
    /\ error # NoError => pc = "rejected"

\* C12 witness: a two-scene run resolved with its blob after one scene's
\* first encode had failed.
C12_Witness ==
    /\ pc = "resolved"
    /\ blob = OutputFile
    /\ Len(scenes) = 2
    /\ \E j \in DOMAIN execLog : execLog[j].result = "failed"

\* A step that calls onProgress.
CallingStep == Call \/ RenderBegin \/ WriteManifest \/ EngineProgress

\* C13: a run that has rejected has never passed fraction 1 to onProgress,
\* and no step that calls onProgress can follow the rejection.
C13_NoTerminalProgressOnReject ==
    pc = "rejected" => nOne = 0 /\ ~ENABLED CallingStep


\* C14: the cue text holds no "[" with a "]" after it, is not empty, has no
\* whitespace at either end unless it is the single space, and has no two
\* whitespace characters in a row.
C14_CueTextClean ==
    fnpc = "done" =>
        /\ cueText # <<>>
        /\ ~\E p, q \in DOMAIN cueText : p < q /\ cueText[p] = "[" /\ cueText[q] = "]"
        /\ \/ cueText = <<" ">>
           \/ /\ cueText[1] \notin {" ", "\n"}
              /\ cueText[Len(cueText)] \notin {" ", "\n"}
        /\ \A p \in 1..(Len(cueText) - 1) :
              ~(cueText[p] \in {" ", "\n"} /\ cueText[p + 1] \in {" ", "\n"})

\* C14 witness: nested brackets around a space were cleaned to an unmatched
\* closing bracket.
C14_Witness ==
    /\ fnpc = "done"
    /\ narration = <<"[", "[", "\n", "]", "]">>
    /\ cueText = <<"]">>


Digit(ch) == ch \in {"0", "1", "2", "3", "4", "5", "6", "7", "8", "9"}

\* HH:MM:SS,mmm with SS in 00..59
IsTimestamp(ts) ==
    /\ Len(ts) = 12
    /\ \A p \in {1, 2, 4, 5, 7, 8, 10, 11, 12} : Digit(ts[p])
    /\ ts[3] = ":" /\ ts[6] = ":" /\ ts[9] = ","
    /\ ts[7] \in {"0", "1", "2", "3", "4", "5"}

\* C15: both timestamps of the document sceneToSRT returns have the form
\* HH:MM:SS,mmm.
C15_TimestampFormat ==
    fnpc = "done" => IsTimestamp(srtDoc.start) /\ IsTimestamp(srtDoc.end)


\* The duration the probe of scene k (0-based) reports.
NarrationDuration(k) == scenes[k + 1].audioBlob.duration

\* The position in execLog of the last encode of scene k.
LastEncodeOf(k) == CHOOSE j \in EncodesOf(k) : \A m \in EncodesOf(k) : m <= j

RECURSIVE RequestedLength(_)
\* The sum of the lengths requested by the last encodes of scenes 0..n-1.
RequestedLength(n) ==
    IF n = 0 THEN 0 ELSE RequestedLength(n - 1) + execLog[LastEncodeOf(n - 1)].t

RECURSIVE NarrationTotal(_)
\* The sum of narrationDuration + GAP over scenes 0..n-1.
NarrationTotal(n) ==
    IF n = 0 THEN 0 ELSE NarrationTotal(n - 1) + NarrationDuration(n - 1) + GAP_SEC

\* C16: every encode command of a scene, first attempt or retry, requests
\* the length narrationDuration + GAP of that scene and an audio pad of GAP,
\* and in a resolved run the lengths of the segments sum to the sum over all
\* scenes of narrationDuration + GAP.
C16_RequestedDurations ==
    /\ \A j \in DOMAIN execLog :
          execLog[j].kind = "encode" =>
              /\ execLog[j].t = NarrationDuration(execLog[j].scene) + GAP_SEC
              /\ execLog[j].apad = GAP_SEC
    /\ pc = "resolved" => RequestedLength(Len(scenes)) = NarrationTotal(Len(scenes))

\* A resolved run of two scenes with different narration durations, where
\* the second scene was encoded twice.
C16_Witness ==
    /\ pc = "resolved"
    /\ Len(scenes) = 2
    /\ NarrationDuration(0) # NarrationDuration(1)
    /\ Cardinality(EncodesOf(1)) = 2
    /\ RequestedLength(2) = NarrationDuration(0) + NarrationDuration(1) + 2 * GAP_SEC


\* The arguments of the encode of scene k (0-based) when subtitles are off,
\* from the scene list alone.
PlainCommand(k) ==
    [kind |-> "encode", scene |-> k,
     t |-> NarrationDuration(k) + GAP_SEC,
     image |-> <<"scene", k, "img.png">>,
     audio |-> <<"scene", k, "audio." \o AudioExt(scenes[k + 1])>>,
     vf |-> <<ScaleFilter, PadFilter>>,
     codec |-> <<"libx264", "aac">>, apad |-> GAP_SEC,
     out |-> <<"scene", k, "vid.mp4">>]

\* The arguments of the command at position j of execLog, without the result
\* the engine gave it.
ArgsOf(j) == [f \in DOMAIN execLog[j] \ {"result"} |-> execLog[j][f]]

HasSubtitleFilter(vf) == \E p \in DOMAIN vf : vf[p].name = "subtitles"

\* C17: with includeSubtitles false every encode command has the chain scale
\* then pad, without a subtitle filter, and is the plain command of its
\* scene; with includeSubtitles true the retry issued after a failed first
\* encode is, argument for argument, that same plain command.
C17_RetryIsPlainCommand ==
    /\ ~includeSubtitles =>
          \A j \in DOMAIN execLog :
              execLog[j].kind = "encode" =>
                  /\ ~HasSubtitleFilter(execLog[j].vf)
                  /\ ArgsOf(j) = PlainCommand(execLog[j].scene)
    /\ includeSubtitles =>
          \A j \in DOMAIN execLog :
              IsRetryEncode(j) =>
                  /\ execLog[j - 1].result = "failed"
                  /\ HasSubtitleFilter(execLog[j - 1].vf)
                  /\ ArgsOf(j) = PlainCommand(execLog[j].scene)

\* With subtitles on, the wav scene at position 1 was retried after its
\* subtitle encode failed.
C17_Witness ==
    /\ includeSubtitles
    /\ Len(scenes) = 2
    /\ \E j \in DOMAIN execLog :
          /\ IsRetryEncode(j)
          /\ execLog[j].scene = 1
          /\ execLog[j].audio = <<"scene", 1, "audio.wav">>
          /\ execLog[j].result = "ok"
          /\ ArgsOf(j) = PlainCommand(1)
          /\ ArgsOf(j - 1) # PlainCommand(1)


\* C18: the engine has at most one progress listener subscribed, and the
\* onProgress calls a step makes are at most one and go to the callback of
\* the run in progress, with that run's scene count.
C18_SingleListener ==
    /\ Len(listeners) <= 1
    /\ Len(calls) <= 1
    /\ \A k \in DOMAIN calls :
          /\ calls[k].run = runId
          /\ calls[k].hasStatus => calls[k].totalScenes = Len(scenes)


\* The positions in execLog of the concatenation commands.
Concats == {j \in DOMAIN execLog : execLog[j].kind = "concat"}

\* A step that passes a command to f.exec.
ExecStep == RenderBegin \/ ExecFail \/ WriteManifest

\* C19: a run executes the concatenation command at most once, after every
\* one of the N scenes has a segment whose last encode succeeded and all N
\* segments are in the manifest; when it fails the run is rejected with that
\* failure, without a blob, and no further command can be issued.
C19_ConcatOnceNoRetry ==
    /\ Cardinality(Concats) <= 1
    /\ \A j \in Concats :
          /\ j = Len(execLog)
          /\ Len(sceneVideos) = Len(scenes)
          /\ \A k \in 0..(Len(scenes) - 1) :
                /\ FinalEncodeOk(k)
                /\ sceneVideos[k + 1] = VideoFile(k)
                /\ \A m \in EncodesOf(k) : m < j
          /\ concatList = Manifest(sceneVideos)
          /\ execLog[j].result = "failed" =>
                /\ pc = "rejected"
                /\ error = Failure("concat")
                /\ blob = NoOutput
                /\ ~ENABLED ExecStep

\* The concatenation of a two-scene run, one of whose scenes needed the
\* retry, has failed.
C19_Witness ==
    /\ Len(scenes) = 2
    /\ Concats # {}
    /\ execLog[Len(execLog)].kind = "concat"
    /\ execLog[Len(execLog)].result = "failed"
    /\ Len(execLog) = 4
    /\ pc = "rejected"


\* The number of writes of the font file in this run.
FontWrites == Cardinality({k \in DOMAIN written : written[k] = FontFile})

\* loadFontForSubtitles has returned.
FontPhaseOver == pc # "font" /\ fetchLog # <<>>

\* Both urls were fetched and neither gave a font.
NoFont ==
    /\ Len(fetchLog) = Len(Urls)
    /\ \A k \in DOMAIN fetchLog : fetchLog[k].outcome = "skipped"

\* C20: the font is fetched from the local path first and from the remote
\* url only after a local attempt that wrote nothing; the font file is
\* written at most once, by the last fetch; the font phase never rejects the
\* run, also when both urls give nothing.  A run without a font goes on to
\* the encodes: a failed subtitle encode is followed by the retry without
\* subtitles, only a failed retry rejects the run as an encode failure, and a
\* run that resolves has a segment for every scene and returns the output.
C20_FontProvisioning ==
    /\ Len(fetchLog) <= Len(Urls)
    /\ ~includeSubtitles => fetchLog = <<>> /\ FontWrites = 0
    /\ \A k \in DOMAIN fetchLog :
          /\ fetchLog[k].url = Urls[k]
          /\ k > 1 => fetchLog[k - 1].outcome = "skipped"
    /\ FontWrites <= 1
    /\ FontWrites = 1 <=> (fetchLog # <<>> /\ fetchLog[Len(fetchLog)].outcome = "written")
    /\ pc = "font" => error = NoError /\ execLog = <<>>
    /\ FontPhaseOver =>
          \/ fetchLog[Len(fetchLog)].outcome = "written"
          \/ NoFont
    /\ (pc = "rejected" /\ fetchLog # <<>>) => FontPhaseOver /\ error.kind # "load"
    /\ (NoFont /\ pc # "font") =>
          /\ \A j \in DOMAIN execLog :
                (IsFirstEncode(j) /\ execLog[j].result = "failed") =>
                    /\ j + 1 \in DOMAIN execLog
                    /\ execLog[j + 1].scene = execLog[j].scene
                    /\ execLog[j + 1].vf = PlainChain
          /\ error.kind = "encode" => IsRetryEncode(Len(execLog))
          /\ pc = "resolved" =>
                /\ blob = OutputFile
                /\ \A k \in 0..(Len(scenes) - 1) : FinalEncodeOk(k)

\* Both urls gave nothing, the subtitle encode of each of two scenes failed
\* and its retry succeeded, and the run resolved with the output.
C20_Witness ==
    /\ NoFont
    /\ FontWrites = 0
    /\ pc = "resolved"
    /\ blob = OutputFile
    /\ Len(scenes) = 2
    /\ \A k \in 0..1 :
          /\ Cardinality(EncodesOf(k)) = 2
          /\ \E j \in EncodesOf(k) :
                /\ execLog[j].vf = SubtitleChain(k)
                /\ execLog[j].result = "failed"
                /\ execLog[j + 1].vf = PlainChain
                /\ execLog[j + 1].result = "ok"


\* The place of a status in the order scene 1, ..., scene N, merge.
SceneRank(st) == IF st.currentScene = NullScene THEN st.totalScenes + 1 ELSE st.currentScene

\* Status b may follow status a at the same callback: the first status is
\* that of scene 1 (of the merge when there is no scene), and a later one is
\* of the same scene or of the next, the merge coming after scene N.
MayFollow(a, b) ==
    IF ~a.seen THEN b.seen => SceneRank(b) = 1
    ELSE /\ b.seen
         /\ b.totalScenes = a.totalScenes
         /\ SceneRank(b) \in {SceneRank(a), SceneRank(a) + 1}

\* C21: the currentScene values successive progress calls of a run carry are
\* non-decreasing from 1 to N and followed only by null: no call for scene i
\* comes after a call for scene i+1 or after a merge call.
C21_OrderedByScene ==
    [][\A r \in DOMAIN lastStatus : MayFollow(lastStatus[r], lastStatus'[r])]_vars

\* A run of two scenes has delivered its merge status after the statuses of
\* both scenes, and the concatenation has reported progress.
C21_Witness ==
    /\ Len(scenes) = 2
    /\ lastStatus[runId] = [seen |-> TRUE, currentScene |-> NullScene, totalScenes |-> 2]
    /\ pc = "concat"
    /\ evCount > 0
    /\ Len(execLog) = 3


\* The onProgress calls of the latest step that carry a status.
StatusCalls == {k \in DOMAIN calls : calls[k].hasStatus}

FailedInstances ==
    {k \in 1..nInstances :
        /\ k \notin initialized
        /\ ~\E c \in Callers : lpc[c] = "awaiting" /\ mine[c] = k}

\* C23: a call of loadFFmpeg made after an initialization has failed does not
\* return the failed instance: a caller that is not awaiting and whose call
\* returns at once gets an instance whose load was not rejected.
C23_FailedInstanceNeverReturned ==
    [][\A c \in Callers :
          (lpc[c] \in {"idle", "rejected"} /\ lpc'[c] = "returned")
              => ret'[c] \notin FailedInstances]_vars


\* A call of assembleVideo started by handleAssemble has not settled.
InFlight == handler = "awaiting" /\ pc \notin {"resolved", "rejected"}

\* C24: from the start of a run until its promise has resolved or rejected
\* the Generate Video button is disabled, so that no second call can be
\* started, and the preview of an earlier output is not shown.
C24_ButtonDisabledWhileInFlight ==
    InFlight => ButtonDisabled /\ ~PreviewShown


\* Every scene of the list has both imageBlob and audioBlob.
AllComplete(list) == \A k \in DOMAIN list : ~LacksMedia(list[k])

\* C25: handleAssemble calls assembleVideo only with a scene list in which
\* every scene has imageBlob and audioBlob; a click that does not call it
\* sets the error message and leaves assembleProgress, assembleStatus and
\* outputBlob as they are; when the call rejects, the continuation sets
\* assembleProgress to null and the status total to 0 and leaves outputBlob
\* as it is.
C25_HandleAssembleFrame ==
    [][/\ (handler = "none" /\ handler' = "awaiting") =>
              /\ AllComplete(scenes')
              /\ runId' = runId + 1
              /\ pc' = "idle"
       /\ (handler = "none" /\ handler' = "none") =>
              /\ uiError' = NotReadyMessage
              /\ runId' = runId
              /\ pc' = pc
              /\ assembleProgress' = assembleProgress
              /\ assembleStatus' = assembleStatus
              /\ outputBlob' = outputBlob
       /\ (handler = "awaiting" /\ handler' = "none" /\ pc = "rejected") =>
              /\ assembleProgress' = NullProgress
              /\ assembleStatus'.totalScenes = 0
              /\ outputBlob' = outputBlob
              /\ uiError' # NoMessage
      ]_vars

\* The second call rejected and its continuation ran, the output of the
\* first call is kept, and a click with an incomplete scene list has set
\* the message without a call.
C25_Witness ==
    /\ handler = "none"
    /\ runId = 2
    /\ pc = "rejected"
    /\ uiError = NotReadyMessage
    /\ assembleProgress = NullProgress
    /\ assembleStatus.totalScenes = 0
    /\ outputBlob = OutputFile


\* C26: a blob stored in a scene was generated for a scene of the same
\* script: a result that arrives after Generate Scenes has replaced the list
\* is not attached to a scene of the new list.
C26_BlobStaysInItsScript ==
    \A k \in DOMAIN appScenes :
        /\ appScenes[k].imageBlob # NoMedia =>
              appScenes[k].imageBlob.script = appScenes[k].script
        /\ appScenes[k].audioBlob # NoMedia =>
              appScenes[k].audioBlob.script = appScenes[k].script


\* C27: sendAssistantMessage returns functionCalled = true, with the text
\* that says the script was added, only if it has called onScript at least
\* once; when none of the response's function calls is a generateMovieScript
\* call with arguments, onScript is not called and the result does not say
\* the script was added.
C27_ConfirmationOnlyAfterOnScript ==
    reply.outcome = "returned" =>
        /\ (reply.functionCalled \/ reply.text = ConfirmText) => Len(scriptCalls) >= 1
        /\ (\A k \in DOMAIN ExtractCalls(response) : ~IsScriptCall(ExtractCalls(response)[k]))
               /\ Len(ExtractCalls(response)) > 0
           => /\ scriptCalls = <<>>
              /\ ~reply.functionCalled
              /\ reply.text # ConfirmText

====
